---- MODULE Spec2Model ----
(***************************************************************************)
(* State machine of fork-off-substrate (src/index.js): the storage         *)
(* download (main's download branch and fetchChunks), the snapshot cache   *)
(* check, the prefix selection and the merge into the forked chain spec.   *)
(*                                                                         *)
(* Hex strings are sequences of hex digits 0..15 without the leading "0x"  *)
(* ("0xaa01" is <<10,10,0,1>>, "0x" is <<>>), so String.startsWith is the  *)
(* prefix relation on sequences.  The 128-bit hashes of the source are     *)
(* shortened to one or two bytes.                                          *)
(***************************************************************************)
EXTENDS Integers, Sequences, FiniteSets, TLC

\* ---------------------------------------------------------------- bounds
\* Children per node of the prefix tree: the literal 256 of the source,
\* scaled down; every byte of a store key is below it.
Radix == 2
\* Largest FORK_CHUNKS_LEVEL (chunksLevel) tried.
MaxLevel == 2
\* Largest PAGE_SIZE (pageSize) tried.
MaxPage == 2
\* Largest number of keys the remote store holds.
MaxKeys == 3
\* Runs of the script in one behaviour.
MaxRuns == 2

\* ------------------------------------------------------------ hex strings
\* JS null (state_getStorage's "not found", the initial startKey): no hex
\* string, and different from the empty hex string "0x".
null == <<16>>

RECURSIVE ToString16(_)
\* Number.prototype.toString(16)
ToString16(i) ==
    IF i < 16 THEN <<i>> ELSE ToString16(i \div 16) \o <<i % 16>>

RECURSIVE PadStart(_, _, _)
\* String.prototype.padStart(n, c)
PadStart(s, n, c) == IF Len(s) >= n THEN s ELSE PadStart(<<c>> \o s, n, c)

\* String.prototype.startsWith
StartsWith(s, p) == Len(p) <= Len(s) /\ SubSeq(s, 1, Len(p)) = p

\* The child prefix of fetchChunks: prefix + i.toString(16).padStart(2, "0")
ChildPrefix(prefix, i) == prefix \o PadStart(ToString16(i), 2, 0)

\* Order of storage keys in the remote store: lexicographic on the bytes.
LexLess(a, b) ==
    \/ Len(a) < Len(b) /\ SubSeq(b, 1, Len(a)) = a
    \/ \E i \in 1..Len(a) :
          /\ i <= Len(b)
          /\ a[i] < b[i]
          /\ \A j \in 1..(i - 1) : a[j] = b[j]

RECURSIVE SortKeys(_)
\* The keys of a set in the store's order.
SortKeys(S) ==
    IF S = {} THEN <<>>
    ELSE LET m == CHOOSE k \in S : \A j \in S \ {k} : LexLess(k, j)
         IN <<m>> \o SortKeys(S \ {m})

\* The first n elements of a sequence.
Take(s, n) == SubSeq(s, 1, IF Len(s) < n THEN Len(s) ELSE n)

Range(s) == {s[i] : i \in 1..Len(s)}

RECURSIVE ByteStrings(_)
\* Hex strings of exactly n bytes, each byte 0x00 or 0x01.
ByteStrings(n) ==
    IF n = 0 THEN {<<>>}
    ELSE {ChildPrefix(p, b) : p \in ByteStrings(n - 1), b \in {0, 1}}

\* Storage keys the remote store may hold: one or two bytes.
StoreKeys == ByteStrings(1) \cup ByteStrings(2)

\* What state_getStorage answers for a key: what the run does never depends
\* on it, so each key has one answer, null ("not found") for the keys
\* ending in a zero byte, the empty value "0x" for the key 0x01.
ValueAt(k) ==
    IF k[Len(k)] = 0 /\ k[Len(k) - 1] = 0 THEN null
    ELSE IF Len(k) = 2 THEN <<>> ELSE k

\* ------------------------------------------------------------------ state
VARIABLES
    \* configuration (process.env)
    chunksLevel,      \* FORK_CHUNKS_LEVEL
    pageSize,         \* PAGE_SIZE
    quickMode,        \* QUICK_MODE set
    parachain,        \* PARACHAIN (parachainSpecPath) set
    \* the remote node
    store,            \* storage at the block hash "at": key -> value
    metadata,         \* pallets of the metadata: [name, storage]
    faultsLeft,       \* listing or value queries the node will still fail
    \* files of the data folder
    binaryFile,       \* data/binary exists
    wasmFile,         \* data/runtime.wasm: its bytes, or null when missing
    forkGen,          \* genesis.raw.top that "binary build-spec" generates
    hexFile,          \* data/runtime.hex
    storageFile,      \* data/storage.json: [exists, content written]
    forkFile,         \* data/fork.json: [exists, top]
    paraFile,         \* the file at parachainSpecPath: [exists, top]
    \* the running process
    pc,               \* position of main
    separator,        \* global "separator"
    chunksFetched,    \* global "chunksFetched"
    prefixes,         \* global "prefixes"
    sched,            \* the leaf calls fetchChunks("0x", chunksLevel) makes
    grp,              \* index in sched of the leaf calls now running
    trav,             \* the leaf calls made: leaf prefix -> its local state
    migrated,         \* migrated_storages and paraMigrated
    \* observation
    started,          \* leaf prefixes in the order their traversal began
    queries,          \* remote queries issued by this run, per kind
    runs,             \* number of runs of the script started
    snaps             \* the snapshots completed so far: [quick, entries]

envVars == <<chunksLevel, pageSize, parachain, store, metadata, faultsLeft,
             binaryFile, wasmFile, forkGen>>
acqVars == <<separator, chunksFetched, sched, grp, trav, started>>
mergeVars == <<hexFile, forkFile, paraFile, prefixes, migrated>>
vars == <<chunksLevel, pageSize, quickMode, parachain, store, metadata,
          faultsLeft, binaryFile, wasmFile, forkGen, hexFile, storageFile, forkFile,
          paraFile, pc, separator, chunksFetched, prefixes, sched, grp, trav,
          migrated, started, queries, runs, snaps>>

\* ------------------------------------------------------ the output stream
\* What stream.write receives: "[", ",", "]" or the text of a batch,
\* JSON.stringify(pairs).slice(1, -1), kept as the pairs it lists.
Tok(t) == [t |-> t, pairs |-> <<>>]
Batch(pairs) == [t |-> "batch", pairs |-> pairs]

\* storage.json absent.
NoFile == [exists |-> FALSE, content |-> <<>>]

\* stream.write(chunk) on the append stream of storage.json
StreamWrite(file, chunks) ==
    [exists |-> TRUE, content |-> file.content \o chunks]

\* ------------------------------------------------------------ fetchChunks
\* provider.send("state_getKeysPaged", [prefix, pageSize, startKey, at]):
\* the first `count` keys with the prefix that follow startKey.
KeysPaged(prefix, count, startKey) ==
    Take(SortKeys({k \in DOMAIN store :
                     /\ StartsWith(k, prefix)
                     /\ (startKey = null \/ LexLess(startKey, k))}),
         count)

\* GetStorage answering "0x", the empty value, for a key that is not found.
GetStorageAbsentAsEmpty(key) ==
    IF key \in DOMAIN store /\ store[key] # null THEN store[key] ELSE <<>>

\* provider.send("state_getStorage", [key, at])
GetStorage(key) == IF key \in DOMAIN store THEN store[key] ELSE null

RECURSIVE ScheduleShortFanOut(_, _, _)
\* Schedule with the fan-out loop of QUICK_MODE one child short
\* (i < 255 for i < 256 on line 312).
ScheduleShortFanOut(prefix, levelsRemaining, quick) ==
    IF levelsRemaining <= 0 THEN << <<prefix>> >>
    ELSE IF quick /\ levelsRemaining = 1
         THEN << [i \in 1..(Radix - 1) |-> ChildPrefix(prefix, i - 1)] >>
         ELSE LET RECURSIVE Loop(_)
                  Loop(i) ==
                      IF i < Radix
                      THEN ScheduleShortFanOut(ChildPrefix(prefix, i),
                                               levelsRemaining - 1, quick)
                           \o Loop(i + 1)
                      ELSE <<>>
              IN Loop(0)

RECURSIVE ScheduleFanOutEveryLevel(_, _, _)
\* Schedule with QUICK_MODE fanning out at every level of the tree
\* (levelsRemaining == 1 left out on line 310): one group of all the leaves.
ScheduleFanOutEveryLevel(prefix, levelsRemaining, quick) ==
    IF levelsRemaining <= 0 THEN << <<prefix>> >>
    ELSE LET RECURSIVE Loop(_)
             Loop(i) ==
                 IF i < Radix
                 THEN LET sub == ScheduleFanOutEveryLevel(
                                     ChildPrefix(prefix, i),
                                     levelsRemaining - 1, quick)
                      IN (IF quick THEN << sub[1] >> ELSE sub) \o Loop(i + 1)
                 ELSE <<>>
             RECURSIVE Join(_)
             Join(groups) ==
                 IF groups = <<>> THEN <<>>
                 ELSE Head(groups) \o Join(Tail(groups))
         IN IF quick THEN << Join(Loop(0)) >> ELSE Loop(0)

RECURSIVE Schedule(_, _, _)
\* The leaf calls of fetchChunks(prefix, levelsRemaining), in the order the
\* recursion makes them: a sequence of groups, the calls of one group
\* pending together (one call per group unless QUICK_MODE fans out the
\* last level), a group starting when the one before has resolved.
Schedule(prefix, levelsRemaining, quick) ==
    IF levelsRemaining <= 0 THEN << <<prefix>> >>
    ELSE IF quick /\ levelsRemaining = 1
         THEN << [i \in 1..Radix |-> ChildPrefix(prefix, i - 1)] >>
         ELSE LET RECURSIVE Loop(_)
                  Loop(i) ==
                      IF i < Radix
                      THEN Schedule(ChildPrefix(prefix, i),
                                    levelsRemaining - 1, quick)
                           \o Loop(i + 1)
                      ELSE <<>>
              IN Loop(0)

\* A leaf call up to its first await: startKey = null and the first
\* state_getKeysPaged sent.
NewLeaf ==
    [pc |-> "list", startKey |-> null, keys |-> <<>>, pending |-> {},
     pairs |-> <<>>, cursors |-> <<null>>, pages |-> <<>>]

\* The leaf calls of group g begin.
StartGroup(t, g) ==
    [q \in DOMAIN t \cup Range(sched'[g]) |->
        IF q \in Range(sched'[g]) THEN NewLeaf ELSE t[q]]

\* LeafReturns with the promise of the leaf call never resolved: the counter
\* is updated and the awaits of lines 322 and 325 wait for ever.
LeafReturnsUnresolved(p, t, q0) ==
    /\ chunksFetched' = chunksFetched + 1
    /\ trav' = [t EXCEPT ![p].pc = "done"]
    /\ queries' = q0
    /\ UNCHANGED <<sched, grp, started>>

\* The leaf call of prefix p returns (lines 305-306) with the other calls as
\* in t: the enclosing loops go on to the next group of calls, if any and
\* unless a rejected await has ended them.
LeafReturns(p, t, q0) ==
    LET t1 == [t EXCEPT ![p].pc = "done"]
        groupDone == \A q \in Range(sched[grp]) : t1[q].pc = "done"
    IN /\ chunksFetched' = chunksFetched + 1
       /\ sched' = sched
       /\ IF groupDone /\ grp + 1 <= Len(sched) /\ pc = "fetch"
          THEN /\ grp' = grp + 1
               /\ trav' = StartGroup(t1, grp + 1)
               /\ started' = started \o sched[grp + 1]
               /\ queries' = [q0 EXCEPT !.list = @ + Len(sched[grp + 1])]
          ELSE /\ grp' = IF groupDone THEN grp + 1 ELSE grp
               /\ trav' = t1
               /\ started' = started
               /\ queries' = q0

\* NextPage leaving the loop on a full page too (<= for < on line 301).
NextPageOnFullPage(p, t, q0) ==
    IF Len(t[p].keys) <= pageSize
    THEN LeafReturns(p, t, q0)
    ELSE /\ trav' = [t EXCEPT
                        ![p].pc = "list",
                        ![p].cursors = Append(@, t[p].startKey)]
         /\ queries' = [q0 EXCEPT !.list = @ + 1]
         /\ UNCHANGED <<chunksFetched, sched, grp, started>>

\* After the page's keys: break on a short page, or send the next
\* state_getKeysPaged (lines 301-303, 279).
NextPage(p, t, q0) ==
    IF Len(t[p].keys) < pageSize
    THEN LeafReturns(p, t, q0)
    ELSE /\ trav' = [t EXCEPT
                        ![p].pc = "list",
                        ![p].cursors = Append(@, t[p].startKey)]
         /\ queries' = [q0 EXCEPT !.list = @ + 1]
         /\ UNCHANGED <<chunksFetched, sched, grp, started>>

\* state_getKeysPaged answers the leaf call of prefix p (lines 279-293).
LeafKeysReply(p) ==
    /\ pc \in {"fetch", "rejected"}
    /\ p \in DOMAIN trav
    /\ trav[p].pc = "list"
    /\ LET keys == KeysPaged(p, pageSize, trav[p].startKey)
           t1 == [trav EXCEPT ![p].keys = keys,
                              ![p].pages = Append(@, keys)]
       IN IF Len(keys) > 0
          THEN /\ trav' = [t1 EXCEPT ![p].pc = "values",
                                     ![p].pending = Range(keys),
                                     ![p].pairs = <<>>]
               /\ queries' = [queries EXCEPT !.value = @ + Len(keys)]
               /\ UNCHANGED <<chunksFetched, sched, grp, started>>
          ELSE NextPage(p, t1, queries)
    /\ UNCHANGED <<envVars, quickMode, mergeVars, storageFile, pc, separator,
                   runs, snaps>>

\* WriteBatch with the comma written before every batch, the first too
\* (the separator flag ignored on line 295).
WriteBatchAlwaysComma(pairs) ==
    StreamWrite(storageFile, <<Tok(","), Batch(pairs)>>)

\* The batch of a page is written (lines 295-298).
WriteBatch(pairs) ==
    StreamWrite(storageFile,
                (IF separator THEN <<Tok(",")>> ELSE <<>>) \o <<Batch(pairs)>>)

\* LeafValueReply writing the page with the first answer (Promise.race for
\* Promise.all on line 288).
LeafValueReplyFirstWins(p, k) ==
    /\ pc \in {"fetch", "rejected"}
    /\ p \in DOMAIN trav
    /\ trav[p].pc = "values"
    /\ k \in trav[p].pending
    /\ LET pairs == Append(trav[p].pairs, <<k, GetStorage(k)>>)
           t1 == [trav EXCEPT ![p].pairs = pairs,
                              ![p].pending = {},
                              ![p].startKey = trav[p].keys[Len(trav[p].keys)]]
       IN /\ storageFile' = WriteBatch(pairs)
          /\ separator' = TRUE
          /\ NextPage(p, t1, queries)
    /\ UNCHANGED <<envVars, quickMode, mergeVars, pc, runs, snaps>>

\* state_getStorage answers for key k of the page of leaf p (lines 290-291);
\* with the last answer Promise.all resolves and the page is written
\* (lines 295-303).
LeafValueReply(p, k) ==
    /\ pc \in {"fetch", "rejected"}
    /\ p \in DOMAIN trav
    /\ trav[p].pc = "values"
    /\ k \in trav[p].pending
    /\ LET pairs == Append(trav[p].pairs, <<k, GetStorage(k)>>)
           t1 == [trav EXCEPT ![p].pairs = pairs,
                              ![p].pending = @ \ {k}]
       IN IF t1[p].pending # {}
          THEN /\ trav' = t1
               /\ UNCHANGED <<storageFile, separator, chunksFetched, sched,
                              grp, started, queries>>
          ELSE /\ storageFile' = WriteBatch(pairs)
               /\ separator' = TRUE
               /\ NextPage(p,
                           [t1 EXCEPT ![p].startKey =
                                          t1[p].keys[Len(t1[p].keys)]],
                           queries)
    /\ UNCHANGED <<envVars, quickMode, mergeVars, pc, runs, snaps>>

\* ---- remote faults
\* An awaited provider.send of the leaf call of prefix p rejects (lines 279,
\* 290): nothing catches it, so the leaf call rejects, and with it every
\* Promise.all and await up to main (lines 322, 325, 156), whose rejection
\* is unhandled.  The runtime then ends the process at once, or only warns
\* and lets what is pending go on; the other leaf calls of a fan-out are
\* not cancelled.  A rejection after main has rejected changes no more.
Rejects(p) ==
    /\ faultsLeft > 0
    /\ faultsLeft' = faultsLeft - 1
    /\ trav' = [trav EXCEPT ![p].pc = "failed", ![p].pending = {}]
    /\ pc' \in IF pc = "fetch" THEN {"died", "rejected"} ELSE {pc}
    /\ UNCHANGED <<chunksLevel, pageSize, parachain, store, metadata,
                   binaryFile, wasmFile, forkGen, quickMode, mergeVars,
                   storageFile, separator, chunksFetched, sched, grp, started,
                   queries, runs, snaps>>

\* state_getKeysPaged fails for the leaf call of prefix p (line 279).
ListFails(p) ==
    /\ pc \in {"fetch", "rejected"}
    /\ p \in DOMAIN trav
    /\ trav[p].pc = "list"
    /\ Rejects(p)

\* state_getStorage fails for key k of the page of leaf p (line 290).
ValueFails(p, k) ==
    /\ pc \in {"fetch", "rejected"}
    /\ p \in DOMAIN trav
    /\ trav[p].pc = "values"
    /\ k \in trav[p].pending
    /\ Rejects(p)

\* After main's rejection was only warned about, nothing is pending any
\* more and the process ends.
ProcessEnds ==
    /\ pc = "rejected"
    /\ \A p \in DOMAIN trav : trav[p].pc \in {"done", "failed"}
    /\ pc' = "died"
    /\ UNCHANGED <<envVars, quickMode, mergeVars, storageFile, acqVars,
                   queries, runs, snaps>>

\* ------------------------------------------------------- the cached file
\* The pairs of the batches written to a file, in file order.
RECURSIVE Pairs(_)
Pairs(content) ==
    IF content = <<>> THEN <<>>
    ELSE Head(content).pairs \o Pairs(Tail(content))

\* Whether JSON.parse accepts the text written (line 207): "[", then
\* nothing or batches separated by single commas, then "]".
WellFormed(content) ==
    LET n == Len(content)
    IN /\ n >= 2
       /\ content[1].t = "["
       /\ content[n].t = "]"
       /\ \A i \in 2..(n - 1) :
            IF i % 2 = 0
            THEN content[i].t = "batch" /\ content[i].pairs # <<>>
            ELSE content[i].t = "," /\ i < n - 1

\* The entries of a snapshot file, as a set.
Entries(file) == Range(Pairs(file.content))

\* ------------------------------------------------------- prefix selection
\* xxhashAsHex(name, 128), shortened to one byte per name.
xxhashAsHex(name) ==
    CASE name = "Admin" -> <<0, 0>>
      [] name = "Dct" -> <<10, 10>>
      [] name = "Balances" -> <<11, 11>>
      [] name = "ParasScheduler" -> <<12, 12>>
      [] name = "System" -> <<2, 6>>
      [] OTHER -> <<15, 15>>

\* The initial value of the global "prefixes": System.Account (lines 72-74).
SystemAccount == xxhashAsHex("System") \o <<11, 9>>

skippedModulesPrefix ==
    {"Aura", "Grandpa", "Identity", "Session", "Substrate", "System",
     "Timestamp", "TransactionPayment", "ValidatorSet"}

\* DctExpiry, DctDelayedRevenue, DctYieldRewardee (lines 86-90).
skippedPrefixes ==
    {xxhashAsHex("Dct") \o <<9, 9>>,
     xxhashAsHex("Dct") \o <<14, 5>>,
     xxhashAsHex("Dct") \o <<3, 10>>}

\* A pallet of metadata.asLatest.pallets: its name and its storage, an
\* Option that is Some or None.
Pallet(name, hasStorage) ==
    [name |-> name, storage |-> [isSome |-> hasStorage]]

\* JS truthiness of module.storage (line 166): an Option is an object, and
\* an object is truthy whether it is Some or None.
Truthy(option) == option \in {[isSome |-> TRUE], [isSome |-> FALSE]}

\* The prefixes after modules.forEach (lines 164-172).
PopulatePrefixes(pfx, modules) ==
    pfx \cup {xxhashAsHex(m.name) :
                 m \in {x \in modules :
                           /\ Truthy(x.storage)
                           /\ x.name \notin skippedModulesPrefix}}

\* ------------------------------------------------------------ the merge
\* Put into a fresh mapping (top = {[key]: value} for top[key] = value).
PutIntoEmpty(top, k, v) == [x \in {k} |-> v]

\* obj[k] = v and delete obj[k] on a genesis.raw.top mapping.
Put(top, k, v) ==
    [x \in DOMAIN top \cup {k} |-> IF x = k THEN v ELSE top[x]]
Delete(top, k) == [x \in DOMAIN top \ {k} |-> top[x]]

\* Selected without the exclusion (line 222 left out).
SelectedAllowedOnly(i, pfx) ==
    \E prefix \in pfx : StartsWith(i[1], prefix)

\* The filter of lines 219-223 (and 233-237) on an entry i = [key, value].
Selected(i, pfx) ==
    /\ \E prefix \in pfx : StartsWith(i[1], prefix)
    /\ ~ \E prefix \in skippedPrefixes : StartsWith(i[1], prefix)

RECURSIVE ForEachAppend(_, _)
\* ForEachPut adding to the value a key already has (+= for = on line 225).
ForEachAppend(top, entries) ==
    IF entries = <<>> THEN top
    ELSE LET k == entries[1][1]
             v == IF k \in DOMAIN top THEN top[k] \o entries[1][2]
                  ELSE entries[1][2]
         IN ForEachAppend(Put(top, k, v), Tail(entries))

RECURSIVE ForEachPut(_, _)
\* .forEach(([key, value]) => { top[key] = value; ... })
ForEachPut(top, entries) ==
    IF entries = <<>> THEN top
    ELSE ForEachPut(Put(top, entries[1][1], entries[1][2]), Tail(entries))

RECURSIVE TakeSelected(_, _)
\* The entries before the first one that is not selected.
TakeSelected(storage, pfx) ==
    IF storage = <<>> \/ ~Selected(Head(storage), pfx) THEN <<>>
    ELSE <<Head(storage)>> \o TakeSelected(Tail(storage), pfx)

\* Migrate stopping at the first entry that is not selected (the filter
\* made a loop that breaks).
MigrateUntilRejected(top, storage, pfx) ==
    LET moved == TakeSelected(storage, pfx)
    IN [top |-> ForEachPut(top, moved), count |-> Len(moved)]

\* storage.filter(...).forEach(...) on a document's top (lines 216-227):
\* the top afterwards and the number of entries written.
Migrate(top, storage, pfx) ==
    LET moved == SelectSeq(storage, LAMBDA i : Selected(i, pfx))
    IN [top |-> ForEachPut(top, moved), count |-> Len(moved)]

\* The well-known keys: ":code" and ParasScheduler.SessionStartBlock.
CodeKey == <<3, 10, 6, 3, 6, 15, 6, 4, 6, 5>>
SessionStartBlockKey == xxhashAsHex("ParasScheduler") \o <<5, 5>>

\* api.query.<section> exists for the pallets of the metadata with storage.
HasQuery(name) == \E m \in metadata : m.name = name /\ m.storage.isSome

\* fixParachinStates(api, forkedSpec), called without await (line 259): the
\* key is deleted; when api.query.parasScheduler is undefined the call
\* rejects before the delete and main goes on.
fixParachinStates(top) ==
    IF HasQuery("ParasScheduler")
    THEN Delete(top, SessionStartBlockKey)
    ELSE top

\* top["0x3a636f6465"] = "0x" + readFileSync(hexPath).trim() (lines 262-263)
SetCode(top, hex) == Put(top, CodeKey, hex)

\* The forked spec's top as main leaves it (lines 216-227, 259-263).
MergeForked(top, storage, pfx, hex) ==
    SetCode(fixParachinStates(Migrate(top, storage, pfx).top), hex)

RECURSIVE HexDump(_)
\* hexdump -ve '/1 "%02x"' (line 118)
HexDump(bytes) ==
    IF bytes = <<>> THEN <<>>
    ELSE PadStart(ToString16(Head(bytes)), 2, 0) \o HexDump(Tail(bytes))

\* ------------------------------------------------------------------- main
NoQueries == [list |-> 0, value |-> 0, hash |-> 0, meta |-> 0]
NoDoc == [exists |-> FALSE, top |-> <<>>]
Doc(top) == [exists |-> TRUE, top |-> top]

\* MainStart without the check of runtime.wasm (lines 110-117 left out).
MainStartWasmUnchecked ==
    /\ pc = "start"
    /\ IF ~binaryFile
       THEN pc' = "exit1" /\ hexFile' = hexFile
       ELSE pc' = "api" /\ hexFile' = HexDump(wasmFile)
    /\ UNCHANGED <<envVars, quickMode, storageFile, forkFile, paraFile,
                   prefixes, migrated, acqVars, queries, runs, snaps>>

\* main up to the creation of the api (lines 100-136).
MainStart ==
    /\ pc = "start"
    /\ IF ~binaryFile \/ wasmFile = null
       THEN pc' = "exit1" /\ hexFile' = hexFile
       ELSE pc' = "api" /\ hexFile' = HexDump(wasmFile)
    /\ UNCHANGED <<envVars, quickMode, storageFile, forkFile, paraFile,
                   prefixes, migrated, acqVars, queries, runs, snaps>>

\* MainCacheCheck reusing storage.json only when it holds a whole JSON array
\* (a check of the content added to line 138).
MainCacheCheckComplete ==
    /\ pc = "api"
    /\ IF storageFile.exists
          /\ Len(storageFile.content) >= 2
          /\ storageFile.content[Len(storageFile.content)].t = "]"
       THEN /\ pc' = "meta"
            /\ queries' = [queries EXCEPT !.meta = @ + 1]
       ELSE /\ pc' = "hash"
            /\ queries' = [queries EXCEPT !.hash = @ + 1]
    /\ UNCHANGED <<envVars, quickMode, mergeVars, storageFile, acqVars, runs,
                   snaps>>

\* MainCacheCheck with the block hash asked for before the check.
MainCacheCheckHashFirst ==
    /\ pc = "api"
    /\ IF storageFile.exists
       THEN /\ pc' = "meta"
            /\ queries' = [queries EXCEPT !.meta = @ + 1, !.hash = @ + 1]
       ELSE /\ pc' = "hash"
            /\ queries' = [queries EXCEPT !.hash = @ + 1]
    /\ UNCHANGED <<envVars, quickMode, mergeVars, storageFile, acqVars, runs,
                   snaps>>

\* The cache check (lines 138-151): the snapshot is reused and
\* api.rpc.state.getMetadata sent, or api.rpc.chain.getBlockHash is sent.
MainCacheCheck ==
    /\ pc = "api"
    /\ IF storageFile.exists
       THEN /\ pc' = "meta"
            /\ queries' = [queries EXCEPT !.meta = @ + 1]
       ELSE /\ pc' = "hash"
            /\ queries' = [queries EXCEPT !.hash = @ + 1]
    /\ UNCHANGED <<envVars, quickMode, mergeVars, storageFile, acqVars, runs,
                   snaps>>

\* The block hash arrives: the stream is opened, "[" written and
\* fetchChunks("0x", chunksLevel, stream, at) called (lines 151-156).
MainOpen ==
    /\ pc = "hash"
    /\ pc' = "fetch"
    /\ storageFile' = StreamWrite(storageFile, <<Tok("[")>>)
    /\ sched' = Schedule(<<>>, chunksLevel, quickMode)
    /\ grp' = 1
    /\ trav' = StartGroup(<<>>, 1)
    /\ started' = sched'[1]
    /\ queries' = [queries EXCEPT !.list = @ + Len(sched'[1])]
    /\ UNCHANGED <<envVars, quickMode, mergeVars, separator, chunksFetched,
                   runs, snaps>>

\* fetchChunks has resolved: "]" is written and the stream ended
\* (lines 157-159); api.rpc.state.getMetadata is sent (line 162).
MainClose ==
    /\ pc = "fetch"
    /\ grp > Len(sched)
    /\ storageFile' = StreamWrite(storageFile, <<Tok("]")>>)
    /\ pc' = "meta"
    /\ queries' = [queries EXCEPT !.meta = @ + 1]
    /\ snaps' = snaps \cup {[quick |-> quickMode,
                             entries |-> Entries(storageFile')]}
    /\ UNCHANGED <<envVars, quickMode, mergeVars, acqVars, runs>>

\* The metadata arrives: the prefixes are populated, the chain specs built
\* and read, the snapshot merged into them and the results written
\* (lines 162-270).
MainMerge ==
    /\ pc = "meta"
    /\ prefixes' = PopulatePrefixes(prefixes, metadata)
    /\ IF ~WellFormed(storageFile.content) \/ (parachain /\ ~paraFile.exists)
       THEN \* JSON.parse or readFileSync throws; build-spec has written
            \* fork.json
            /\ pc' = "crash"
            /\ forkFile' = Doc(forkGen)
            /\ UNCHANGED <<paraFile, migrated>>
       ELSE LET storage == Pairs(storageFile.content)
                para == Migrate(paraFile.top, storage, prefixes')
            IN /\ pc' = "exit0"
               /\ forkFile' = Doc(MergeForked(forkGen, storage, prefixes',
                                              hexFile))
               /\ paraFile' = IF parachain THEN Doc(para.top) ELSE paraFile
               /\ migrated' =
                     [fork |-> Migrate(forkGen, storage, prefixes').count,
                      para |-> IF parachain THEN para.count ELSE 0]
    /\ UNCHANGED <<envVars, quickMode, hexFile, storageFile, acqVars, queries,
                   runs, snaps>>

\* The process has ended and the script is run again, with QUICK_MODE set
\* or not and storage.json deleted or kept.
Rerun ==
    /\ pc \in {"exit0", "exit1", "crash", "died"}
    /\ runs < MaxRuns
    /\ runs' = runs + 1
    /\ pc' = "start"
    /\ quickMode' \in BOOLEAN
    /\ \E delete \in BOOLEAN :
          storageFile' = IF delete THEN NoFile ELSE storageFile
    /\ separator' = FALSE
    /\ chunksFetched' = 0
    /\ prefixes' = {SystemAccount}
    /\ sched' = <<>>
    /\ grp' = 0
    /\ trav' = <<>>
    /\ started' = <<>>
    /\ migrated' = [fork |-> 0, para |-> 0]
    /\ queries' = NoQueries
    /\ UNCHANGED <<envVars, hexFile, forkFile, paraFile, snaps>>

\* ------------------------------------------------------------------ specs
\* The process at the start of main.
ProcInit ==
    /\ pc = "start"
    /\ separator = FALSE
    /\ chunksFetched = 0
    /\ prefixes = {SystemAccount}
    /\ sched = <<>>
    /\ grp = 0
    /\ trav = <<>>
    /\ migrated = [fork |-> 0, para |-> 0]
    /\ started = <<>>
    /\ queries = NoQueries
    /\ runs = 1
    /\ snaps = {}
    /\ hexFile = null
    /\ forkFile = NoDoc

Stores ==
    {[k \in K |-> ValueAt(k)] :
        K \in {S \in SUBSET StoreKeys : Cardinality(S) <= MaxKeys}}

\* The download: no storage.json, any store, depth, page size and mode.
Init ==
    /\ ProcInit
    /\ chunksLevel \in 0..MaxLevel
    /\ pageSize \in 1..MaxPage
    /\ quickMode \in BOOLEAN
    /\ store \in Stores
    /\ storageFile = NoFile
    /\ parachain = FALSE
    /\ paraFile = NoDoc
    /\ metadata = {Pallet("Admin", TRUE), Pallet("System", TRUE)}
    /\ faultsLeft = 0
    /\ binaryFile = TRUE
    /\ wasmFile = <<0, 97>>
    /\ forkGen = (CodeKey :> <<0>>)

\* ---- the merge on a cached snapshot
\* Largest number of entries of a cached storage.json.
MaxSnap == 3

\* Entries a cached snapshot may hold, one per key.
SnapEntries ==
    {<<xxhashAsHex("Dct") \o <<0, 1>>, <<1>>>>,
     <<xxhashAsHex("Balances") \o <<0, 2>>, <<2>>>>,
     <<xxhashAsHex("Dct") \o <<9, 9>>, <<3>>>>,
     <<SessionStartBlockKey, <<4>>>>,
     <<CodeKey, <<5>>>>,
     <<SystemAccount \o <<0, 1>>, null>>}

RECURSIVE Snapshots(_)
\* The sequences of at most n entries with different keys.
Snapshots(n) ==
    IF n = 0 THEN {<<>>}
    ELSE Snapshots(n - 1) \cup
         UNION {{Append(s, e) :
                    e \in {x \in SnapEntries :
                              \A i \in 1..Len(s) : s[i][1] # x[1]}} :
                s \in {x \in Snapshots(n - 1) : Len(x) = n - 1}}

\* storage.json as a completed download of these entries leaves it.
CachedFile(s) ==
    [exists |-> TRUE,
     content |-> <<Tok("[")>> \o (IF s = <<>> THEN <<>> ELSE <<Batch(s)>>)
                 \o <<Tok("]")>>]

\* Tops that build-spec may generate for the forked chain: the code alone,
\* or also the scheduling key, an allowed key, an excluded key and a key of
\* no pallet of the live chain.
GenTops ==
    {[k \in K |-> <<0>>] :
        K \in {{CodeKey},
               {CodeKey, SessionStartBlockKey, <<13, 13, 0, 0>>,
                xxhashAsHex("Dct") \o <<0, 1>>,
                xxhashAsHex("Dct") \o <<9, 9>>}}}

\* Metadata of the live chain: System, and any of three more pallets.
Metadatas ==
    {{Pallet("System", TRUE)} \cup M :
        M \in SUBSET {Pallet("Dct", TRUE), Pallet("Balances", FALSE),
                      Pallet("ParasScheduler", TRUE)}}

\* The top of the file at parachainSpecPath before the first run.
ParaTop0 ==
    [k \in {SessionStartBlockKey, xxhashAsHex("Dct") \o <<0, 1>>} |-> <<0>>]

\* A cached storage.json exists: any snapshot, metadata and generated spec.
InitMerge ==
    /\ ProcInit
    /\ chunksLevel = 1
    /\ pageSize = 1
    /\ quickMode = FALSE
    /\ store = [k \in {<<0, 0>>} |-> ValueAt(k)]
    /\ storageFile \in {CachedFile(s) : s \in Snapshots(MaxSnap)}
    /\ parachain \in BOOLEAN
    /\ paraFile = IF parachain THEN Doc(ParaTop0) ELSE NoDoc
    /\ metadata \in Metadatas
    /\ faultsLeft = 0
    /\ binaryFile = TRUE
    /\ wasmFile = <<0, 97>>
    /\ forkGen \in GenTops

Next ==
    \/ MainStart
    \/ MainCacheCheck
    \/ MainOpen
    \/ \E p \in DOMAIN trav : LeafKeysReply(p)
    \/ \E p \in DOMAIN trav : \E k \in trav[p].pending : LeafValueReply(p, k)
    \/ MainClose
    \/ MainMerge
    \/ Rerun

Spec == Init /\ [][Next]_vars

SpecMerge == InitMerge /\ [][Next]_vars

\* ---- one run with every pending operation completing
\* The steps of a run: a pending query is answered, or main goes on.
RunStep ==
    \/ MainStart
    \/ MainCacheCheck
    \/ MainOpen
    \/ \E p \in DOMAIN trav : LeafKeysReply(p)
    \/ \E p \in DOMAIN trav : \E k \in trav[p].pending : LeafValueReply(p, k)
    \/ MainClose
    \/ MainMerge

\* One run of the script, in which the node answers every query and the
\* event loop runs what is ready: a run that can take a step takes one.
SpecLive == Init /\ [][RunStep]_vars /\ WF_vars(RunStep)

\* ---- the download against a node that may fail
\* Remote faults in one behaviour.
MaxFaults == 1

\* The download of a store of two-byte keys from a node that may fail
\* MaxFaults queries, data/binary and data/runtime.wasm present or not.
InitFault ==
    /\ ProcInit
    /\ chunksLevel \in 0..MaxLevel
    /\ pageSize \in 1..MaxPage
    /\ quickMode \in BOOLEAN
    /\ store \in {st \in Stores : \A k \in DOMAIN st : Len(k) = 4}
    /\ storageFile = NoFile
    /\ parachain = FALSE
    /\ paraFile = NoDoc
    /\ metadata = {Pallet("Admin", TRUE), Pallet("System", TRUE)}
    /\ faultsLeft = MaxFaults
    /\ binaryFile \in BOOLEAN
    /\ wasmFile \in {null, <<0, 97>>}
    /\ forkGen = (CodeKey :> <<0>>)

NextFault ==
    \/ Next
    \/ \E p \in DOMAIN trav : ListFails(p)
    \/ \E p \in DOMAIN trav : \E k \in trav[p].pending : ValueFails(p, k)
    \/ ProcessEnds

SpecFault == InitFault /\ [][NextFault]_vars

\* ================================================================ claims
RECURSIVE Pow(_, _)
Pow(b, n) == IF n = 0 THEN 1 ELSE b * Pow(b, n - 1)

\* This run took the download branch and fetchChunks has resolved.
Downloaded == queries.hash = 1 /\ pc \in {"meta", "exit0", "crash"}

\* The keys of the entries written to storage.json, in file order.
WrittenKeys == [i \in 1..Len(Pairs(storageFile.content)) |->
                   Pairs(storageFile.content)[i][1]]

NoDuplicates(s) == \A i, j \in 1..Len(s) : s[i] = s[j] => i = j

\* C1: once the download has run to completion, storage.json holds no key
\* twice and holds exactly the keys of the store, for every depth, page
\* size and mode.
C1_SnapshotHoldsExactlyTheStore ==
    Downloaded =>
        /\ NoDuplicates(WrittenKeys)
        /\ Range(WrittenKeys) = DOMAIN store

\* What holds instead: no key twice, and exactly the store keys of at least
\* chunksLevel bytes.
SnapshotHoldsTheLongKeys ==
    Downloaded =>
        /\ NoDuplicates(WrittenKeys)
        /\ Range(WrittenKeys) =
              {k \in DOMAIN store : Len(k) >= 2 * chunksLevel}

\* ---- C2
\* The store keys under a leaf prefix.
KeysUnder(p) == {k \in DOMAIN store : StartsWith(k, p)}

\* The keys a leaf call was given by its listing calls, in order.
RECURSIVE Flatten(_)
Flatten(pages) ==
    IF pages = <<>> THEN <<>> ELSE Head(pages) \o Flatten(Tail(pages))

\* ceil(N / P), plus one when N is a multiple of P.
ListingCalls(N, P) == (N + P - 1) \div P + (IF N % P = 0 THEN 1 ELSE 0)

\* C2: a leaf call that has returned, for a prefix holding N keys with
\* page size P, has made ceil(N/P) listing calls (one more when P divides
\* N), was given exactly the N keys, each once, and stopped after a page of
\* fewer than P keys, every page before it being full; the first listing
\* call has cursor null and every later one the last key of the page before.
C2_PaginationTotality ==
    \A p \in DOMAIN trav :
        LET t == trav[p]
            N == Cardinality(KeysUnder(p))
            n == Len(t.pages)
        IN /\ t.cursors[1] = null
           /\ \A i \in 2..Len(t.cursors) :
                 /\ t.pages[i - 1] # <<>>
                 /\ t.cursors[i] = t.pages[i - 1][Len(t.pages[i - 1])]
           /\ t.pc = "done" =>
                 /\ Len(t.cursors) = ListingCalls(N, pageSize)
                 /\ n = Len(t.cursors)
                 /\ NoDuplicates(Flatten(t.pages))
                 /\ Range(Flatten(t.pages)) = KeysUnder(p)
                 /\ Len(t.pages[n]) < pageSize
                 /\ \A i \in 1..(n - 1) : Len(t.pages[i]) = pageSize

\* C2 witness: the spec's example, a leaf of three keys read with page size
\* two in two listing calls, the second from the cursor k2.
C2_Witness ==
    \E p \in DOMAIN trav :
        /\ trav[p].pc = "done"
        /\ pageSize = 2
        /\ Cardinality(KeysUnder(p)) = 3
        /\ Len(trav[p].cursors) = 2
        /\ trav[p].cursors[2] = trav[p].pages[1][2]

\* ---- C3
\* C3: fetchChunks("0x", L) begins a leaf traversal for exactly Radix^L
\* prefixes, each once, they are the byte strings of length L, every
\* possible key starts with exactly one of them, and in sequential mode
\* they are visited in ascending order.
C3_PartitionCompleteness ==
    Downloaded =>
        /\ Len(started) = Pow(Radix, chunksLevel)
        /\ NoDuplicates(started)
        /\ \A i \in 1..Len(started) : Len(started[i]) = 2 * chunksLevel
        /\ \A k \in StoreKeys :
              Cardinality({i \in 1..Len(started) :
                              StartsWith(k, started[i])}) = 1
        /\ ~quickMode =>
              \A i \in 1..(Len(started) - 1) :
                  LexLess(started[i], started[i + 1])

\* What holds instead: the same with "every key of at least L bytes".
PartitionOfTheLongKeys ==
    Downloaded =>
        /\ Len(started) = Pow(Radix, chunksLevel)
        /\ NoDuplicates(started)
        /\ \A i \in 1..Len(started) : Len(started[i]) = 2 * chunksLevel
        /\ \A k \in StoreKeys :
              Cardinality({i \in 1..Len(started) :
                              StartsWith(k, started[i])}) =
                 IF Len(k) >= 2 * chunksLevel THEN 1 ELSE 0
        /\ ~quickMode =>
              \A i \in 1..(Len(started) - 1) :
                  LexLess(started[i], started[i + 1])

\* ---- C5
\* C5: the downloads completed over the same store, depth and page size,
\* in sequential mode and with QUICK_MODE, hold the same set of entries.
C5_SameEntriesInBothModes ==
    \A a, b \in snaps : a.entries = b.entries

\* C5 witness: a sequential and a QUICK_MODE download of a store of three
\* keys have both completed, the fan-out one in an order of its own.
C5_Witness ==
    /\ \E a, b \in snaps : a.quick /\ ~b.quick /\ Cardinality(a.entries) = 3
    /\ chunksLevel = 1
    /\ quickMode
    /\ Downloaded
    /\ Len(WrittenKeys) = 3
    /\ \E i \in 1..2 : LexLess(WrittenKeys[i + 1], WrittenKeys[i])

\* ---- C6
\* The text written so far is "[" followed by batches, each after the
\* first preceded by one comma, and no batch is empty.
OpenArray(content) ==
    /\ Len(content) >= 1
    /\ content[1].t = "["
    /\ \A i \in 2..Len(content) :
          IF i % 2 = 0
          THEN content[i].t = "batch" /\ content[i].pairs # <<>>
          ELSE content[i].t = "," /\ i < Len(content)

\* C6: in every interleaving the writes to the stream are "[", then the
\* batches, the first without a comma and every later one right after
\* exactly one comma, an empty page writing nothing and every batch being
\* one page of one leaf, then "]": the finished file is a JSON array.
C6_StreamIsAJsonArray ==
    queries.hash = 1 =>
        /\ pc = "hash" => ~storageFile.exists
        /\ pc = "fetch" =>
              /\ OpenArray(storageFile.content)
              /\ separator = (Len(storageFile.content) > 1)
        /\ pc \in {"meta", "exit0", "crash"} =>
              /\ WellFormed(storageFile.content)
              /\ OpenArray(SubSeq(storageFile.content, 1,
                                  Len(storageFile.content) - 1))
        /\ pc # "hash" =>
              \A i \in 1..Len(storageFile.content) :
                  storageFile.content[i].t = "batch" =>
                      \E p \in DOMAIN trav :
                          \E j \in 1..Len(trav[p].pages) :
                              /\ Range(storageFile.content[i].pairs) =
                                    {<<k, GetStorage(k)>> :
                                        k \in Range(trav[p].pages[j])}
                              /\ Len(storageFile.content[i].pairs) =
                                    Len(trav[p].pages[j])
        /\ pc \in {"meta", "exit0"} =>
              Cardinality({i \in 1..Len(storageFile.content) :
                              storageFile.content[i].t = "batch"}) =
              Cardinality(UNION {{<<p, j>> :
                                     j \in {x \in 1..Len(trav[p].pages) :
                                               trav[p].pages[x] # <<>>}} :
                                 p \in DOMAIN trav})

\* C6 witness: a finished QUICK_MODE download in which the batches of two
\* leaves alternate (first leaf, second leaf, first leaf) and one leaf had
\* an empty last page.
C6_Witness ==
    /\ Downloaded
    /\ quickMode
    /\ chunksLevel = 1
    /\ pageSize = 1
    /\ Len(storageFile.content) = 7
    /\ StartsWith(storageFile.content[2].pairs[1][1], <<0, 0>>)
    /\ StartsWith(storageFile.content[4].pairs[1][1], <<0, 1>>)
    /\ StartsWith(storageFile.content[6].pairs[1][1], <<0, 0>>)

\* ---- C4
Allowed(k) == \E prefix \in prefixes : StartsWith(k, prefix)
Excluded(k) == \E prefix \in skippedPrefixes : StartsWith(k, prefix)

\* Key k is in top as it was in top0: same value, or in neither.
Kept(top0, top, k) ==
    IF k \in DOMAIN top0 THEN k \in DOMAIN top /\ top[k] = top0[k]
    ELSE k \notin DOMAIN top

\* Key k has value v in top.
Holds(top, k, v) == k \in DOMAIN top /\ top[k] = v

\* The snapshot of the spec's example.
ExampleSnapshot ==
    <<<<xxhashAsHex("Dct") \o <<0, 1>>, <<1>>>>,
      <<xxhashAsHex("Balances") \o <<0, 2>>, <<2>>>>,
      <<xxhashAsHex("Dct") \o <<9, 9>>, <<3>>>>>>

\* C4: the merge writes an entry of the snapshot into a target's top if and
\* only if its key starts with an allowed prefix and with no excluded one
\* (exclusion wins), in both targets, and counts the entries written; for
\* the spec's example only (0xaa01, 0x1) is migrated.
C4_SelectionRule ==
    pc = "exit0" =>
        LET storage == Pairs(storageFile.content)
            Sel(i) == Allowed(i[1]) /\ ~Excluded(i[1])
            n == Cardinality({j \in 1..Len(storage) : Sel(storage[j])})
        IN /\ \A i \in Range(storage) :
                 /\ i[1] \notin {CodeKey, SessionStartBlockKey} =>
                       IF Sel(i) THEN Holds(forkFile.top, i[1], i[2])
                       ELSE Kept(forkGen, forkFile.top, i[1])
                 /\ parachain /\ runs = 1 =>
                       IF Sel(i) THEN Holds(paraFile.top, i[1], i[2])
                       ELSE Kept(ParaTop0, paraFile.top, i[1])
           /\ migrated.fork = n
           /\ parachain => migrated.para = n
           /\ storage = ExampleSnapshot
              /\ prefixes = {SystemAccount, xxhashAsHex("Dct")} =>
                 /\ n = 1
                 /\ Holds(forkFile.top, ExampleSnapshot[1][1], <<1>>)
                 /\ Kept(forkGen, forkFile.top, ExampleSnapshot[2][1])
                 /\ Kept(forkGen, forkFile.top, ExampleSnapshot[3][1])

\* C4 witness: the spec's example merged into both targets, the excluded
\* key being in the generated spec with another value.
C4_Witness ==
    /\ pc = "exit0"
    /\ runs = 1
    /\ Pairs(storageFile.content) = ExampleSnapshot
    /\ prefixes = {SystemAccount, xxhashAsHex("Dct")}
    /\ parachain
    /\ migrated = [fork |-> 1, para |-> 1]
    /\ Holds(forkFile.top, ExampleSnapshot[3][1], <<0>>)
    /\ Holds(paraFile.top, ExampleSnapshot[1][1], <<1>>)

\* ---- C7
\* C7: when storage.json exists at the cache check, the run sends no key
\* listing, no value fetch and no block-hash query, leaves storage.json as
\* it is, and merges the entries of that file.
C7_CacheShortCircuit ==
    /\ [][(pc = "api" /\ storageFile.exists) =>
             /\ pc' = "meta"
             /\ storageFile' = storageFile
             /\ queries'.list = 0 /\ queries'.value = 0 /\ queries'.hash = 0
             /\ trav' = <<>>]_vars
    /\ [][(pc = "meta" /\ queries.hash = 0) =>
             /\ storageFile' = storageFile
             /\ queries' = queries
             /\ trav' = <<>>
             /\ pc' = "exit0" =>
                   forkFile'.top =
                      MergeForked(forkGen, Pairs(storageFile.content),
                                  prefixes', hexFile)]_vars

\* C7 witness: a run that found a cached file of three entries has ended
\* having merged two of them, with no listing, value or block-hash query.
C7_Witness ==
    /\ pc = "exit0"
    /\ runs = 1
    /\ queries = [list |-> 0, value |-> 0, hash |-> 0, meta |-> 1]
    /\ Len(Pairs(storageFile.content)) = 3
    /\ migrated.fork = 2

\* ---- C8
\* s without its i-th element.
Without(s, i) == SubSeq(s, 1, i - 1) \o SubSeq(s, i + 1, Len(s))

RECURSIVE Orderings(_)
\* The orderings of a sequence.
Orderings(s) ==
    IF s = <<>> THEN {<<>>}
    ELSE UNION {{<<s[i]>> \o q : q \in Orderings(Without(s, i))} :
                i \in 1..Len(s)}

\* C8: for the prefixes and the snapshot of a run, every ordering of the
\* snapshot's entries gives the targets and the counts the run produced,
\* and an entry matching both an allowed and an excluded prefix is not
\* among the entries written.
C8_SelectionDeterminism ==
    pc = "exit0" =>
        \A q \in Orderings(Pairs(storageFile.content)) :
            LET fork == Migrate(forkGen, q, prefixes)
                para == Migrate(ParaTop0, q, prefixes)
            IN /\ forkFile.top = SetCode(fixParachinStates(fork.top), hexFile)
               /\ migrated.fork = fork.count
               /\ parachain /\ runs = 1 =>
                     /\ paraFile.top = para.top
                     /\ migrated.para = para.count
                     /\ \A i \in Range(q) :
                           Allowed(i[1]) /\ Excluded(i[1]) =>
                               Kept(ParaTop0, paraFile.top, i[1])

\* C8 witness: a merged snapshot of three entries, the second one matching
\* an allowed and an excluded prefix, the other two written.
C8_Witness ==
    /\ pc = "exit0"
    /\ runs = 1
    /\ parachain
    /\ Len(Pairs(storageFile.content)) = 3
    /\ LET i == Pairs(storageFile.content)[2]
       IN Allowed(i[1]) /\ Excluded(i[1])
    /\ migrated.para = 2

\* ---- C9
\* C9: merging again with the same snapshot, prefixes and runtime leaves
\* both targets as the first merge left them; the file at
\* parachainSpecPath, merged again by a second run on the same cached
\* snapshot, is as one merge leaves it.
C9_IdempotentRemerge ==
    pc = "exit0" =>
        LET storage == Pairs(storageFile.content)
        IN /\ MergeForked(forkFile.top, storage, prefixes, hexFile) =
                 forkFile.top
           /\ parachain =>
                 Migrate(paraFile.top, storage, prefixes).top = paraFile.top
           /\ parachain /\ snaps = {} =>
                 paraFile.top = Migrate(ParaTop0, storage, prefixes).top

\* C9 witness: the second run on the same cached snapshot has merged an
\* entry whose key both targets held before the first merge.
C9_Witness ==
    /\ pc = "exit0"
    /\ runs = 2
    /\ snaps = {}
    /\ parachain
    /\ migrated.para >= 2
    /\ \E i \in Range(Pairs(storageFile.content)) :
          /\ i[1] \in DOMAIN ParaTop0
          /\ i[1] \in DOMAIN forkGen
          /\ Holds(paraFile.top, i[1], i[2])
          /\ Holds(forkFile.top, i[1], i[2])

\* ---- C10
\* C10: in fork.json as main writes it the scheduling key is absent and the
\* code key maps to the hex of the runtime blob, for every snapshot and
\* every generated spec.
C10_SchedulingKeyRemovedCodeSet ==
    pc = "exit0" =>
        /\ SessionStartBlockKey \notin DOMAIN forkFile.top
        /\ Holds(forkFile.top, CodeKey, HexDump(wasmFile))

\* What holds instead: the code key is set in every run, and the scheduling
\* key is absent when the metadata has the ParasScheduler pallet.
CodeSetAndKeyRemovedWithPallet ==
    pc = "exit0" =>
        /\ HasQuery("ParasScheduler") =>
              SessionStartBlockKey \notin DOMAIN forkFile.top
        /\ Holds(forkFile.top, CodeKey, HexDump(wasmFile))

\* ---- C11
\* C11: when data/binary or data/runtime.wasm is missing as main starts, the
\* process exits with code 1 having sent no remote query, with storage.json,
\* runtime.hex and the chain specs as they were (nothing created, generated
\* or written) and no leaf call made; exit code 1 has no other cause, and
\* nothing runs after it but a new run of the script.
C11_MissingArtifactExitsWithNoWork ==
    /\ [][(pc = "start" /\ (~binaryFile \/ wasmFile = null)) =>
             /\ pc' = "exit1"
             /\ queries' = NoQueries
             /\ storageFile' = storageFile
             /\ hexFile' = hexFile
             /\ forkFile' = forkFile
             /\ paraFile' = paraFile
             /\ trav' = <<>>]_vars
    /\ [](pc = "exit1" =>
             /\ ~binaryFile \/ wasmFile = null
             /\ queries = NoQueries)
    /\ [][pc = "exit1" => pc' = "start" /\ runs' = runs + 1]_vars

\* C11 witness: the run has exited with code 1 for the missing runtime.wasm,
\* data/binary being there, with no snapshot and no chain spec on disk.
C11_Witness ==
    /\ pc = "exit1"
    /\ binaryFile
    /\ wasmFile = null
    /\ ~storageFile.exists
    /\ ~forkFile.exists
    /\ hexFile = null

\* ---- C12
\* A listing or value query of this run has failed.
Aborted == pc \in {"rejected", "died"}

\* The closing "]" is in storage.json.
Closed(file) == \E i \in 1..Len(file.content) : file.content[i].t = "]"

\* C12: once a listing or value query has failed, in either mode, the leaf
\* call it failed in sends nothing more, no remote query is sent and no
\* batch written by any leaf call, "]" is never written and the run merges
\* nothing: the next thing to happen is a new run of the script.
C12_FaultAbortsAcquisition ==
    /\ [][\A p \in DOMAIN trav :
              trav[p].pc = "failed" /\ p \in DOMAIN trav' =>
                  trav'[p] = trav[p]]_vars
    /\ [][Aborted /\ pc' # "start" =>
             /\ queries' = queries
             /\ storageFile' = storageFile]_vars
    /\ [](Aborted => ~Closed(storageFile))
    /\ [][Aborted =>
             /\ pc' \in {"rejected", "died", "start"}
             /\ forkFile' = forkFile
             /\ migrated' = migrated]_vars

\* What holds instead: the same in sequential mode, and in both modes for
\* all but the queries and batches of the other leaf calls of the fan-out.
FaultAbortsSequentialAcquisition ==
    /\ [][\A p \in DOMAIN trav :
              trav[p].pc = "failed" /\ p \in DOMAIN trav' =>
                  trav'[p] = trav[p]]_vars
    /\ [][Aborted /\ pc' # "start" /\ ~quickMode =>
             /\ queries' = queries
             /\ storageFile' = storageFile]_vars
    /\ [](Aborted => ~Closed(storageFile))
    /\ [][Aborted =>
             /\ pc' \in {"rejected", "died", "start"}
             /\ forkFile' = forkFile
             /\ migrated' = migrated]_vars

\* ---- C13
\* The keys of a batch, in the order of its entries.
BatchKeys(b) == [n \in 1..Len(b.pairs) |-> b.pairs[n][1]]

\* The batches written to storage.json by this run's download.
Batches == {i \in 1..Len(storageFile.content) :
               storageFile.content[i].t = "batch"}

\* C13: every batch written to storage.json lists its entries in the order
\* in which the listing query returned the keys of its page, whatever the
\* order in which the value fetches of the page complete.
C13_BatchInListingOrder ==
    queries.hash = 1 /\ pc # "hash" =>
        \A i \in Batches :
            \E p \in DOMAIN trav :
                \E j \in 1..Len(trav[p].pages) :
                    BatchKeys(storageFile.content[i]) = trav[p].pages[j]

\* What holds instead: every batch lists the keys of one page, each once,
\* in some order.
BatchInSomeOrder ==
    queries.hash = 1 /\ pc # "hash" =>
        \A i \in Batches :
            \E p \in DOMAIN trav :
                \E j \in 1..Len(trav[p].pages) :
                    /\ Range(BatchKeys(storageFile.content[i])) =
                          Range(trav[p].pages[j])
                    /\ Len(storageFile.content[i].pairs) =
                          Len(trav[p].pages[j])

\* ---- C14
\* C14: a key whose value fetch answers "not found" is written as the entry
\* [key, null], which differs from the entry of an empty value, [key, "0x"];
\* no query fails for it, and the download goes on: the finished file holds
\* the entry of every key the listing queries returned, with the answer of
\* its fetch.
C14_NotFoundRecordedAsNull ==
    queries.hash = 1 =>
        /\ pc \notin {"rejected", "died"}
        /\ \A p \in DOMAIN trav : trav[p].pc # "failed"
        /\ \A i \in Range(Pairs(storageFile.content)) :
              /\ i[1] \in DOMAIN store
              /\ i[2] = store[i[1]]
              /\ (i[2] = null) # (i[2] \in Seq(0..15))
        /\ Downloaded =>
              Entries(storageFile) =
                 {<<k, store[k]>> :
                     k \in UNION {Range(Flatten(trav[p].pages)) :
                                     p \in DOMAIN trav}}

\* C14 witness: a finished download whose first batch is an entry with the
\* value null, with a later batch holding an entry with the empty value.
C14_Witness ==
    /\ Downloaded
    /\ queries.hash = 1
    /\ Len(storageFile.content) >= 5
    /\ storageFile.content[2].pairs[1][2] = null
    /\ \E i \in 3..Len(storageFile.content) :
          /\ storageFile.content[i].t = "batch"
          /\ storageFile.content[i].pairs[1][2] = <<>>

\* ---- C15
\* The leaf calls that have begun and neither returned nor failed.
InFlight == {p \in DOMAIN trav : trav[p].pc \in {"list", "values"}}

\* C15: at every point of a download, for every depth, at most one leaf
\* call is in flight in sequential mode, every leaf call begun before it
\* having returned, and at most Radix (the source's 256) with QUICK_MODE.
C15_InFlightLeavesBounded ==
    /\ Cardinality(InFlight) <= IF quickMode THEN Radix ELSE 1
    /\ ~quickMode =>
          \A i \in 1..(Len(started) - 1) : trav[started[i]].pc = "done"

\* C15 witness: with QUICK_MODE and depth two, the Radix leaf calls of the
\* second fan-out are all in flight, those of the first having returned.
C15_Witness ==
    /\ quickMode
    /\ chunksLevel = 2
    /\ grp = 2
    /\ Cardinality(InFlight) = Radix
    /\ Len(started) = 2 * Radix
    /\ \E p \in InFlight : trav[p].pc = "values"

\* ---- C16
\* The pallets of the metadata that are not in the skip list.
NotSkipped == {m \in metadata : m.name \notin skippedModulesPrefix}

\* C16: the allowed prefixes the merge uses are System.Account and the hash
\* of the name of exactly the pallets of the metadata that have storage and
\* are not in the skip list: a pallet without storage or in the skip list
\* gives no prefix.
C16_AllowedPrefixSet ==
    pc = "exit0" =>
        prefixes = {SystemAccount} \cup
                   {xxhashAsHex(m.name) : m \in {x \in NotSkipped :
                                                    x.storage.isSome}}

\* What holds instead: System.Account and the hash of the name of every
\* pallet that is not in the skip list, with storage or without.
AllowedPrefixSetOfAllPallets ==
    pc = "exit0" =>
        prefixes = {SystemAccount} \cup
                   {xxhashAsHex(m.name) : m \in NotSkipped}

\* ---- C17
\* The batches of storage.json that hold keys of leaf p, in file order.
LeafBatches(p) ==
    SelectSeq(storageFile.content,
              LAMBDA c : c.t = "batch" /\ StartsWith(c.pairs[1][1], p))

\* The pages of keys the leaf call of p was given, the empty one left out.
NonEmptyPages(p) == SelectSeq(trav[p].pages, LAMBDA g : g # <<>>)

\* C17: the batch of a page is written only when the value fetch of every
\* key of the page has completed, and then holds one entry for each key of
\* the page; a leaf call never has more value fetches in flight than the
\* page size; and while a listing query of a leaf is in flight the batch of
\* every page the leaf was given is in the file.
C17_PageFetchedThenAppended ==
    queries.hash = 1 /\ pc # "hash" =>
        \A p \in DOMAIN trav :
            LET t == trav[p]
                batches == LeafBatches(p)
                pages == NonEmptyPages(p)
                nb == Len(batches)
                np == Len(pages)
            IN /\ Cardinality(t.pending) <= pageSize
               /\ Len(t.keys) <= pageSize
               /\ t.pc = "values" =>
                     /\ t.pending # {}
                     /\ nb = np - 1
                     /\ t.pending \cup {t.pairs[n][1] : n \in 1..Len(t.pairs)}
                           = Range(t.keys)
                     /\ Cardinality(t.pending) + Len(t.pairs) = Len(t.keys)
               /\ t.pc \in {"list", "done"} =>
                     /\ t.pending = {}
                     /\ nb = np
                     /\ Len(t.cursors) =
                           Len(t.pages) + (IF t.pc = "list" THEN 1 ELSE 0)
               /\ \A n \in 1..nb :
                     /\ Range(BatchKeys(batches[n])) = Range(pages[n])
                     /\ Len(batches[n].pairs) = Len(pages[n])

\* C17 witness: of the two value fetches of a page one has completed and
\* one is in flight, and the file holds "[" only.
C17_Witness ==
    /\ pc = "fetch"
    /\ pageSize = 2
    /\ Len(storageFile.content) = 1
    /\ \E p \in DOMAIN trav :
          /\ trav[p].pc = "values"
          /\ Len(trav[p].pairs) = 1
          /\ Cardinality(trav[p].pending) = 1

\* ---- C18
\* The download is complete: every leaf call of the depth has begun and
\* returned and "]" is written.
AcquisitionDone ==
    /\ pc = "meta"
    /\ Closed(storageFile)
    /\ Len(started) = Pow(Radix, chunksLevel)
    /\ \A p \in DOMAIN trav : trav[p].pc = "done"

\* C18: for a finite store whose listing returns the keys after the cursor
\* and with no failing query, a download that has begun reaches, in both
\* modes, the state where every leaf call has returned and "]" is written,
\* provided a run that can take a step takes one; a leaf call returns only
\* after a page of fewer than pageSize keys, and sends a further listing
\* query only after a full page.
C18_AcquisitionTerminates ==
    /\ (pc = "fetch") ~> AcquisitionDone
    /\ [][\A p \in DOMAIN trav \cap DOMAIN trav' :
              /\ trav[p].pc # "done" /\ trav'[p].pc = "done" =>
                    Len(trav'[p].keys) < pageSize
              /\ Len(trav'[p].cursors) > Len(trav[p].cursors) =>
                    Len(trav'[p].keys) = pageSize]_vars

\* C18 witness: a QUICK_MODE download of depth two, of a store of three keys
\* read in pages of one, is complete.
C18_Witness ==
    /\ AcquisitionDone
    /\ quickMode
    /\ chunksLevel = 2
    /\ pageSize = 1
    /\ Len(WrittenKeys) = 3

\* ---- C19
\* storage.json as a download aborted by a failed query leaves it: "[" and
\* the batches written until then, without "]".
PartialArtifact ==
    /\ storageFile.exists
    /\ OpenArray(storageFile.content)
    /\ ~Closed(storageFile)

\* C19: the cache check looks at the existence of storage.json only: a run
\* that finds the file of an aborted download goes on as with a complete
\* one, to the metadata query, sends no block-hash, listing or value query
\* in all its course, makes no leaf call and leaves the file as it is.
C19_PartialArtifactIsReused ==
    /\ [][pc = "api" =>
             /\ pc' = IF storageFile.exists THEN "meta" ELSE "hash"
             /\ storageFile' = storageFile]_vars
    /\ [][PartialArtifact /\ pc \in {"api", "meta"} =>
             /\ PartialArtifact'
             /\ storageFile' = storageFile
             /\ queries'.hash = 0
             /\ queries'.list = 0
             /\ queries'.value = 0
             /\ trav' = <<>>]_vars

\* C19 witness: the run after a download that a failed query aborted has
\* passed the cache check on a file of "[" and one batch, with the metadata
\* query as its only query.
C19_Witness ==
    /\ runs = 2
    /\ pc = "meta"
    /\ faultsLeft = 0
    /\ PartialArtifact
    /\ Len(storageFile.content) = 2
    /\ queries = [list |-> 0, value |-> 0, hash |-> 0, meta |-> 1]

\* ---- C20
\* C20: the merge leaves every key of a target's top as it was, in the
\* generated fork spec and in the file at parachainSpecPath, unless it is
\* the key of a selected entry of the snapshot or, in the fork spec, the
\* scheduling key or the code key; it adds no key but those of selected
\* entries and, to the fork spec, the code key; the file at
\* parachainSpecPath gets the selected entries and nothing else, and is not
\* touched when PARACHAIN is not set.
C20_MergeFrame ==
    [][pc = "meta" /\ pc' = "exit0" =>
          LET storage == Range(Pairs(storageFile.content))
              sel == {i \in storage :
                         /\ \E prefix \in prefixes' : StartsWith(i[1], prefix)
                         /\ ~Excluded(i[1])}
              keys == {i[1] : i \in sel}
          IN /\ \A k \in DOMAIN forkGen \cup DOMAIN forkFile'.top :
                   k \notin keys \cup {SessionStartBlockKey, CodeKey} =>
                       Kept(forkGen, forkFile'.top, k)
             /\ DOMAIN forkFile'.top \subseteq
                   DOMAIN forkGen \cup keys \cup {CodeKey}
             /\ IF parachain
                THEN /\ \A k \in DOMAIN paraFile.top \cup DOMAIN paraFile'.top :
                           k \notin keys => Kept(paraFile.top, paraFile'.top, k)
                     /\ DOMAIN paraFile'.top = DOMAIN paraFile.top \cup keys
                     /\ \A i \in sel : paraFile'.top[i[1]] = i[2]
                ELSE paraFile' = paraFile]_vars

\* C20 witness: a merge has written an entry into both targets; the fork
\* spec still holds, with their generated values, a key of no pallet and a
\* key whose entry is excluded, and the file at parachainSpecPath still
\* holds the scheduling key, which the fork spec has lost.
C20_Witness ==
    /\ pc = "exit0"
    /\ runs = 1
    /\ parachain
    /\ migrated.fork >= 1
    /\ Holds(forkFile.top, <<13, 13, 0, 0>>, <<0>>)
    /\ Holds(forkFile.top, xxhashAsHex("Dct") \o <<9, 9>>, <<0>>)
    /\ \E i \in Range(Pairs(storageFile.content)) :
          i[1] = xxhashAsHex("Dct") \o <<9, 9>>
    /\ SessionStartBlockKey \notin DOMAIN forkFile.top
    /\ Holds(paraFile.top, SessionStartBlockKey, <<0>>)

====
